---- MODULE Spec2Model ----
(***************************************************************************)
(* Camcookie - DIRTBIKES (src/FP/game.py): the game loop, the race         *)
(* simulation, the track generator and the statistics file, as a state     *)
(* machine.                                                                *)
(*                                                                         *)
(* Numbers.  The program computes in floating point; the model computes    *)
(* exactly, in integers, on a grid on which every constant of the program  *)
(* is a whole number:                                                      *)
(*   time      1 = 0.01 s       (TU  = 100   per second)                   *)
(*   velocity  1 = 0.001 u/s    (VU  = 1000  per world unit per second)    *)
(*   position  1 = 0.00001 u    (XU  = VU * TU per world unit)             *)
(* so that velocity * time is a position and acceleration * time is a      *)
(* velocity without rounding.  Floating-point rounding is not modelled.    *)
(***************************************************************************)
EXTENDS Integers, Sequences, FiniteSets

VARIABLES
    phase,                \* "boot": Game.__init__ not run yet; "run"; "exit": SystemExit raised
    state,                \* Game.state
    stats,                \* Game.stats: [total_races, wins, best_time]
    disk,                 \* the content of stats.json
    saves,                \* how many times Stats.save has been called
    bot_count,            \* Game.bot_count
    reduced_motion,       \* Game.reduced_motion
    track,                \* Game.track: [length, lanes, obstacles]
    racers,               \* Game.racers: sequence of Racer records, in list order
    particles,            \* Game.particles: sequence of Particle records, in list order
    camera_x,             \* Game.camera_x
    time_race,            \* Game.time_race
    time_start_countdown, \* Game.time_start_countdown
    countdown_phase,      \* Game.countdown_phase
    clock,                \* time.time(), as read by the latest frame
    last_burst,           \* history: per racer, the race clock of its latest spark burst
    budget                \* iterations of Game.run's loop still to be explored

vars == <<phase, state, stats, disk, saves, bot_count, reduced_motion, track,
          racers, particles, camera_x, time_race, time_start_countdown,
          countdown_phase, clock, last_burst, budget>>

----------------------------------------------------------------------------
(* Units *)
TU == 10 ^ 2
VU == 10 ^ 3
XU == VU * TU

(* Python's None (Racer.finish_time, Stats.best_time), and JSON null *)
None == 0 - 1

Max(a, b) == IF a >= b THEN a ELSE b
Min(a, b) == IF a <= b THEN a ELSE b
Abs(a) == IF a >= 0 THEN a ELSE 0 - a

----------------------------------------------------------------------------
(* Game constants, src/FP/game.py lines 25-43 *)
TRACK_LENGTH == 1200
VIEW_WIDTH_MIN == 60
LANES == 5
GRAVITY == 36 * VU
JUMP_VEL == 16 * VU
ACCEL == 28 * VU
BRAKE == 36 * VU
FRICTION == 10 * VU
MAX_SPEED == 60 * VU
\* ENGINE_ON_ACCEL_FACTOR = 1.0 and ENGINE_OFF_ACCEL_FACTOR = 0.25, in percent
ENGINE_ON_ACCEL_FACTOR == 100
ENGINE_OFF_ACCEL_FACTOR == 25

ROCK == "rock"
LOG == "log"
RAMP == "ramp"

STATE_HOME == "home"
STATE_COUNTDOWN == "countdown"
STATE_RACE == "race"
STATE_PAUSE == "pause"
STATE_END == "end"

----------------------------------------------------------------------------
(* Stats and stats.json                                                    *)
(*                                                                         *)
(* A file is missing, or does not parse as a JSON object ("garbage": json  *)
(* .load raises, or data.get does), or is an object whose three keys each  *)
(* are absent, null, a number, or a value int()/float() rejects.           *)

Absent == 0 - 2     \* the key is not in the object
JBad == 0 - 3       \* a value int() and float() raise on: "abc", [1], {}

StatsDefault == [total_races |-> 0, wins |-> 0, best_time |-> None]

MissingFile == [kind |-> "missing", total_races |-> Absent, wins |-> Absent,
                best_time |-> Absent, writable |-> TRUE]
GarbageFile == [kind |-> "garbage", total_races |-> Absent, wins |-> Absent,
                best_time |-> Absent, writable |-> TRUE]
ObjectFile(t, w, b) == [kind |-> "object", total_races |-> t, wins |-> w,
                        best_time |-> b, writable |-> TRUE]
ReadOnly(d) == [d EXCEPT !.writable = FALSE]

\* int(data.get(key, 0)) raises: int(None) is a TypeError, int("abc") a ValueError
IntRaises(v) == v \in {None, JBad}
IntOf(v) == IF v = Absent THEN 0 ELSE v
\* float(bt) is only reached for bt not None
FloatRaises(v) == v = JBad
FloatOf(v) == IF v \in {Absent, None} THEN None ELSE v

\* Stats.load: the fields are assigned one by one inside the try block; an
\* exception leaves the assignments already made in place.
Load(s, d) ==
    IF d.kind = "missing" THEN s
    ELSE IF d.kind = "garbage" THEN s
    ELSE IF IntRaises(d.total_races) THEN s
    ELSE LET s1 == [s EXCEPT !.total_races = IntOf(d.total_races)] IN
         IF IntRaises(d.wins) THEN s1
         ELSE LET s2 == [s1 EXCEPT !.wins = IntOf(d.wins)] IN
              IF FloatRaises(d.best_time) THEN s2
              ELSE [s2 EXCEPT !.best_time = FloatOf(d.best_time)]

\* Stats.save: what json.dump writes; when the file cannot be opened for
\* writing, open() raises and the file stays as it was
Dumped(s) == ObjectFile(s.total_races, s.wins, s.best_time)
Save(s, d) == IF d.writable THEN Dumped(s) ELSE d

----------------------------------------------------------------------------
(* Track                                                                   *)

Obstacle(x, lane, kind) == [x |-> x * XU, lane |-> lane, kind |-> kind]

\* random.choice([ROCK, LOG, RAMP, ROCK, LOG])
KindChoice == {ROCK, LOG, RAMP}
\* random.randint(12, 28) after an obstacle is placed: the ends and the middle
PlacedGap_NoAdvance == {1, 20, 28}
PlacedGap == {12, 20, 28}
\* random.randint(4, 12) otherwise: the ends and the middle
SkipGap == {4, 8, 12}

\* One lane's walk of Track.generate from x on: every list of obstacles the
\* random draws can produce.
RECURSIVE LaneWalk(_, _, _)
LaneWalk(x, lane, length) ==
    IF ~(x < length - 60) THEN {<<>>}
    ELSE UNION {{<<Obstacle(x, lane, c[1])>> \o s : s \in LaneWalk(x + c[2], lane, length)}
                   : c \in KindChoice \X PlacedGap}
         \cup UNION {LaneWalk(x + gp, lane, length) : gp \in SkipGap}

\* Track.generate: lanes 0 .. lanes-1 in order, each appended to the list
RECURSIVE GenerateFrom(_, _, _)
GenerateFrom(lane, lanes, length) ==
    IF lane >= lanes THEN {<<>>}
    ELSE {a \o b : a \in LaneWalk(20, lane, length),
                   b \in GenerateFrom(lane + 1, lanes, length)}

Generate(length, lanes) == GenerateFrom(0, lanes, length)

\* Track.obstacles_in_lane
RECURSIVE SelectLane(_, _)
SelectLane(obs, lane) ==
    IF obs = <<>> THEN <<>>
    ELSE IF Head(obs).lane = lane THEN <<Head(obs)>> \o SelectLane(Tail(obs), lane)
    ELSE SelectLane(Tail(obs), lane)

obstacles_in_lane(t, lane) == SelectLane(t.obstacles, lane)

----------------------------------------------------------------------------
(* Racer, Particle                                                         *)

\* The three AI parameters a Racer draws at creation (default_factory):
\* target_speed in [32, 52], lookahead in [10, 24], jump_bias in [0.35, 0.75]
\* (in percent).  The player draws them too and never reads them.
AiDraw(ts, la, jb) == [target_speed |-> ts * VU, lookahead |-> la * XU, jump_bias |-> jb]
PlayerAi == AiDraw(32, 10, 35)

Racer(is_player, lane, ai) ==
    [is_player |-> is_player, lane |-> lane,
     x |-> 0, y |-> 0, vx |-> 0, vy |-> 0,
     finished |-> FALSE, finish_time |-> None,
     engine_on |-> TRUE, sparks_cooldown |-> 0,
     target_speed |-> ai.target_speed, lookahead |-> ai.lookahead,
     jump_bias |-> ai.jump_bias]

\* Particle: the time to live and the glyph (dust, spark, confetti).  Position,
\* velocity and colour are read by the renderer only and are not modelled.
DUST == "dust"
SPARK == "spark"
CONFETTI == "confetti"

\* random.uniform for a particle's ttl: dust [0.2, 0.6], spark [0.2, 0.5],
\* confetti [0.4, 1.2].  A draw names the end of the range the particles of one
\* effect take: "lo", "hi", or alternately ("mix").
TtlLo(kind) == IF kind = CONFETTI THEN 40 ELSE 20
TtlHi(kind) == IF kind = DUST THEN 60 ELSE IF kind = SPARK THEN 50 ELSE 120
TtlOf(kind, draw, i) ==
    IF draw = "lo" \/ (draw = "mix" /\ i % 2 = 1) THEN TtlLo(kind) ELSE TtlHi(kind)

Burst(kind, n, draw) == [i \in 1..n |-> [kind |-> kind, ttl |-> TtlOf(kind, draw, i)]]

\* Game._dust: n = random.randint(2, 5) + (4 if strong else 0) particles
DustCount_NoStrong(draw, strong) == draw
DustCount(draw, strong) == draw + (IF strong THEN 4 ELSE 0)
Dust(strong, rnd) == Burst(DUST, DustCount(rnd.dust, strong), rnd.ttl)

\* Game._sparks: nothing while the cooldown runs; else the cooldown is set to
\* 0.2 s and count particles are appended.  [r, parts]
SPARKS_COOLDOWN == 20
Sparks(r, count, rnd) ==
    IF r.sparks_cooldown > 0 THEN [r |-> r, parts |-> <<>>]
    ELSE [r |-> [r EXCEPT !.sparks_cooldown = SPARKS_COOLDOWN],
          parts |-> Burst(SPARK, count, rnd.ttl)]

\* Game._confetti_burst: 25 particles
CONFETTI_COUNT == 25
ConfettiBurst(r, rnd) == Burst(CONFETTI, CONFETTI_COUNT, rnd.ttl)

\* Game._update_particles, the particle loop: ttl -= dt, dropped when <= 0
RECURSIVE Alive_KeepExpired(_, _)
Alive_KeepExpired(parts, dt) ==
    IF parts = <<>> THEN <<>>
    ELSE <<[Head(parts) EXCEPT !.ttl = @ - dt]>> \o Alive_KeepExpired(Tail(parts), dt)
RECURSIVE Alive(_, _)
Alive(parts, dt) ==
    IF parts = <<>> THEN <<>>
    ELSE LET p == [Head(parts) EXCEPT !.ttl = @ - dt] IN
         IF p.ttl <= 0 THEN Alive(Tail(parts), dt)
         ELSE <<p>> \o Alive(Tail(parts), dt)

\* Game._update_particles, the cooldown loop
Cooled(r, dt) ==
    IF r.sparks_cooldown > 0
    THEN [r EXCEPT !.sparks_cooldown = Max(0, r.sparks_cooldown - dt)]
    ELSE r

----------------------------------------------------------------------------
(* Physics: one racer's part of Game._update_race.  Each step takes and    *)
(* returns [r, parts]: the racer and the particles it appended.            *)

\* The tolerance 0.001 of "grounded", and the contact range 0.9
GROUND_EPS == XU \div 1000
CONTACT_RANGE == (9 * XU) \div 10
ROCK_PENALTY == 12 * VU
LOG_PENALTY == 9 * VU

\* Game._bot_ai.  won: random.random() < jump_chance came out true (the
\* chance is between 0.35 and 0.95, so it can come out either way);
\* rnd.jf: random.uniform(0.9, 1.1), per mille
RECURSIVE FirstHazard_HalfOpen(_, _, _)
FirstHazard_HalfOpen(obs, x, ahead) ==
    IF obs = <<>> THEN <<>>
    ELSE IF x <= Head(obs).x /\ Head(obs).x < ahead THEN <<Head(obs)>>
    ELSE FirstHazard_HalfOpen(Tail(obs), x, ahead)
RECURSIVE FirstHazard(_, _, _)
FirstHazard(obs, x, ahead) ==
    IF obs = <<>> THEN <<>>
    ELSE IF x < Head(obs).x /\ Head(obs).x <= ahead THEN <<Head(obs)>>
    ELSE FirstHazard(Tail(obs), x, ahead)

BotAi_FullBrake(r, dt, trk, won, rnd) ==
    LET accel == IF r.engine_on THEN ACCEL ELSE (ACCEL * ENGINE_OFF_ACCEL_FACTOR) \div 100
        r1 == IF r.vx < r.target_speed
              THEN [r EXCEPT !.vx = Min(MAX_SPEED, r.vx + (accel * dt) \div TU)]
              ELSE [r EXCEPT !.vx = Max(0, r.vx - (FRICTION * dt) \div TU)]
        hz == FirstHazard(obstacles_in_lane(trk, r.lane), r.x, r.x + r.lookahead)
    IN  IF hz = <<>> THEN [r |-> r1, parts |-> <<>>]
        ELSE LET jumps == r1.y <= GROUND_EPS /\ won
                 r2 == IF jumps THEN [r1 EXCEPT !.vy = (JUMP_VEL * rnd.jf) \div 1000] ELSE r1
             IN  [r |-> [r2 EXCEPT !.vx = Max(0, r2.vx - (BRAKE * dt) \div TU)],
                  parts |-> IF jumps THEN Dust(FALSE, rnd) ELSE <<>>]
BotAi(r, dt, trk, won, rnd) ==
    LET accel == IF r.engine_on THEN ACCEL ELSE (ACCEL * ENGINE_OFF_ACCEL_FACTOR) \div 100
        r1 == IF r.vx < r.target_speed
              THEN [r EXCEPT !.vx = Min(MAX_SPEED, r.vx + (accel * dt) \div TU)]
              ELSE [r EXCEPT !.vx = Max(0, r.vx - (FRICTION * dt) \div TU)]
        hz == FirstHazard(obstacles_in_lane(trk, r.lane), r.x, r.x + r.lookahead)
    IN  IF hz = <<>> THEN [r |-> r1, parts |-> <<>>]
        ELSE LET jumps == r1.y <= GROUND_EPS /\ won
                 r2 == IF jumps THEN [r1 EXCEPT !.vy = (JUMP_VEL * rnd.jf) \div 1000] ELSE r1
             IN  [r |-> [r2 EXCEPT !.vx = Max(0, r2.vx - (BRAKE * 2 * dt) \div (10 * TU))],
                  parts |-> IF jumps THEN Dust(FALSE, rnd) ELSE <<>>]

\* r.vx = max(0.0, r.vx - penalty)
Penalised_NoFloor(r, penalty) == [r EXCEPT !.vx = r.vx - penalty]
Penalised(r, penalty) == [r EXCEPT !.vx = Max(0, r.vx - penalty)]

\* Game._collisions: every obstacle of the lane in range, in list order
RECURSIVE CollideAll(_, _, _)
CollideAll(rp, obs, rnd) ==
    IF obs = <<>> THEN rp
    ELSE LET o == Head(obs)
             r == rp.r
         IN  IF ~(Abs(r.x - o.x) < CONTACT_RANGE) THEN CollideAll(rp, Tail(obs), rnd)
             ELSE IF o.kind = ROCK
             THEN LET s == Sparks(Penalised(r, ROCK_PENALTY), rnd.rock, rnd)
                  IN  CollideAll([r |-> s.r, parts |-> rp.parts \o s.parts], Tail(obs), rnd)
             ELSE IF o.kind = LOG
             THEN LET s == Sparks(Penalised(r, LOG_PENALTY), rnd.log, rnd)
                  IN  CollideAll([r |-> s.r, parts |-> rp.parts \o s.parts], Tail(obs), rnd)
             ELSE IF o.kind = RAMP /\ r.y <= GROUND_EPS
             THEN CollideAll([r |-> [r EXCEPT !.vy = (JUMP_VEL * 12) \div 10],
                              parts |-> rp.parts \o Dust(TRUE, rnd)], Tail(obs), rnd)
             ELSE CollideAll(rp, Tail(obs), rnd)

Collisions(rp, trk, rnd) ==
    IF rp.r.y > 0 THEN rp
    ELSE CollideAll(rp, obstacles_in_lane(trk, rp.r.lane), rnd)

\* The player's passive friction (lines 351-354)
PlayerFriction(r, dt) ==
    IF r.vx > 0 THEN [r EXCEPT !.vx = Max(0, r.vx - (FRICTION * dt) \div TU)] ELSE r

\* gravity and the ground clamp (lines 358-363)
Gravity(r, dt) ==
    LET vy1 == r.vy - (GRAVITY * dt) \div TU
        y1 == r.y + vy1 * dt
    IN  IF y1 <= 0 THEN [r EXCEPT !.y = 0, !.vy = 0]
        ELSE [r EXCEPT !.y = y1, !.vy = vy1]

\* speed clamp and horizontal integration (lines 365-367)
Advance(r, dt) ==
    LET v == Max(0, Min(MAX_SPEED, r.vx)) IN
    [r EXCEPT !.vx = v, !.x = r.x + v * dt]

\* finish check (lines 372-377), at race clock t
FinishCheck_ConfettiForAll(rp, t, rnd) ==
    IF rp.r.x >= TRACK_LENGTH * XU
    THEN [r |-> [rp.r EXCEPT !.finished = TRUE, !.finish_time = t],
          parts |-> rp.parts \o ConfettiBurst(rp.r, rnd)]
    ELSE rp
FinishCheck(rp, t, rnd) ==
    IF rp.r.x >= TRACK_LENGTH * XU
    THEN [r |-> [rp.r EXCEPT !.finished = TRUE, !.finish_time = t],
          parts |-> IF rp.r.is_player THEN rp.parts \o ConfettiBurst(rp.r, rnd)
                    ELSE rp.parts]
    ELSE rp

\* The body of the loop over the racers (lines 347-377)
StepRacer_NoSkip(r, dt, t, trk, won, rnd) ==
    LET a == IF r.is_player THEN [r |-> PlayerFriction(r, dt), parts |-> <<>>]
             ELSE BotAi(r, dt, trk, won, rnd)
        b == [a EXCEPT !.r = Advance(Gravity(a.r, dt), dt)]
    IN  FinishCheck(Collisions(b, trk, rnd), t, rnd)
StepRacer(r, dt, t, trk, won, rnd) ==
    IF r.finished THEN [r |-> r, parts |-> <<>>]
    ELSE LET a == IF r.is_player THEN [r |-> PlayerFriction(r, dt), parts |-> <<>>]
                  ELSE BotAi(r, dt, trk, won, rnd)
             b == [a EXCEPT !.r = Advance(Gravity(a.r, dt), dt)]
         IN  FinishCheck(Collisions(b, trk, rnd), t, rnd)

----------------------------------------------------------------------------
(* The Game object.  The handlers are functions of the object's fields, g, *)
(* so that one frame (input, then the update of the state it leaves) is    *)
(* one step.                                                               *)

Self ==
    [phase |-> phase, state |-> state, stats |-> stats, disk |-> disk, saves |-> saves,
     bot_count |-> bot_count, reduced_motion |-> reduced_motion, track |-> track,
     racers |-> racers, particles |-> particles, camera_x |-> camera_x,
     time_race |-> time_race, time_start_countdown |-> time_start_countdown,
     countdown_phase |-> countdown_phase]

\* Game._player: the index of the first racer with is_player, else the first
PlayerIx(rs) ==
    IF \E i \in 1..Len(rs) : rs[i].is_player
    THEN CHOOSE i \in 1..Len(rs) : rs[i].is_player /\ \A j \in 1..(i - 1) : ~rs[j].is_player
    ELSE 1
Player(rs) == rs[PlayerIx(rs)]

SpawnRace_KeepParticles(g, rnd) ==
    [g EXCEPT !.track = [g.track EXCEPT !.obstacles = rnd.track],
              !.racers = <<Racer(TRUE, LANES \div 2, PlayerAi)>>
                         \o [i \in 1..g.bot_count |-> Racer(FALSE, (i - 1) % LANES, rnd.ai)],
              !.camera_x = 0,
              !.time_race = 0]

\* Game._spawn_race.  rnd.track: the obstacles Track.generate draws; rnd.ai:
\* the AI parameters the new bots draw.
SpawnRace(g, rnd) ==
    [g EXCEPT !.track = [g.track EXCEPT !.obstacles = rnd.track],
              !.racers = <<Racer(TRUE, LANES \div 2, PlayerAi)>>
                         \o [i \in 1..g.bot_count |-> Racer(FALSE, (i - 1) % LANES, rnd.ai)],
              !.particles = <<>>,
              !.camera_x = 0,
              !.time_race = 0]

\* Game._start_countdown (and Game._rematch), at wall-clock time now
StartCountdown(g, now, rnd) ==
    [SpawnRace([g EXCEPT !.time_start_countdown = now, !.countdown_phase = 3], rnd)
        EXCEPT !.state = STATE_COUNTDOWN]

\* Game._to_home
ToHome(g) == [g EXCEPT !.state = STATE_HOME]

\* Game._update_countdown, at wall-clock time now
UpdateCountdown(g, now) ==
    LET elapsed == now - g.time_start_countdown IN
    IF elapsed < 1 * TU THEN [g EXCEPT !.countdown_phase = 3]
    ELSE IF elapsed < 2 * TU THEN [g EXCEPT !.countdown_phase = 2]
    ELSE IF elapsed < 3 * TU THEN [g EXCEPT !.countdown_phase = 1]
    ELSE IF elapsed < (36 * TU) \div 10 THEN [g EXCEPT !.countdown_phase = 0]
    ELSE [g EXCEPT !.state = STATE_RACE]

\* sorted(self.racers, key=finish_time or 9e9)[0]: the sort is stable, so the
\* first of the racers with the least key
\* (9e9 s is past every race clock; so is 2 * 10^9 on the model's time grid)
SortKey(r) == IF r.finish_time # None THEN r.finish_time ELSE 2 * (10 ^ 9)
FirstOrdered_LastOfTies(rs) ==
    CHOOSE i \in 1..Len(rs) :
        \A j \in 1..Len(rs) : SortKey(rs[i]) < SortKey(rs[j])
                              \/ (SortKey(rs[i]) = SortKey(rs[j]) /\ i >= j)
FirstOrdered(rs) ==
    CHOOSE i \in 1..Len(rs) :
        \A j \in 1..Len(rs) : SortKey(rs[i]) < SortKey(rs[j])
                              \/ (SortKey(rs[i]) = SortKey(rs[j]) /\ i <= j)

\* Game._race_end
\* the best time after a race the player finished at finish_time (lines 443-446)
Improved_Latest(best_time, finish_time) ==
    IF finish_time # None THEN finish_time ELSE best_time
Improved(best_time, finish_time) ==
    IF finish_time # None /\ (best_time = None \/ finish_time < best_time)
    THEN finish_time
    ELSE best_time

RaceEnd(g) ==
    LET player == Player(g.racers)
        s1 == [g.stats EXCEPT !.total_races = @ + 1]
        s2 == [s1 EXCEPT !.best_time = Improved(@, player.finish_time)]
        s3 == IF g.racers # <<>> /\ g.racers[FirstOrdered(g.racers)].is_player
              THEN [s2 EXCEPT !.wins = @ + 1]
              ELSE s2
    IN  [g EXCEPT !.state = STATE_END,
                  !.stats = s3,
                  !.disk = Save(s3, g.disk),
                  !.saves = @ + 1]

\* The camera (lines 379-385); the viewport is VIEW_WIDTH_MIN columns wide.
\* The smoothing a + (b - a) * 0.12 is rounded down to the position grid.
Lerp(a, b, pct) == a + ((b - a) * pct) \div 100
Camera(g, px) ==
    LET target_cam == px - (VIEW_WIDTH_MIN \div 3) * XU IN
    IF g.reduced_motion THEN Max(0, Min(TRACK_LENGTH * XU, target_cam))
    ELSE Lerp(g.camera_x, target_cam, 12)

RECURSIVE Concat(_)
Concat(ss) == IF ss = <<>> THEN <<>> ELSE Head(ss) \o Concat(Tail(ss))

UpdateRace_EndBeforeCamera(g, dt, rnd) ==
    LET t == g.time_race + dt
        n == Len(g.racers)
        step == [i \in 1..n |-> StepRacer(g.racers[i], dt, t, g.track, i \in rnd.jump, rnd)]
        rs1 == [i \in 1..n |-> step[i].r]
        ps1 == g.particles \o Concat([i \in 1..n |-> step[i].parts])
        g0 == [g EXCEPT !.time_race = t, !.particles = ps1, !.racers = rs1]
        g1 == [g0 EXCEPT !.camera_x = Camera(g, Player(rs1).x),
                         !.particles = Alive(ps1, dt),
                         !.racers = [i \in 1..n |-> Cooled(rs1[i], dt)]]
    IN  IF \A i \in 1..n : rs1[i].finished THEN RaceEnd(g0) ELSE g1

UpdateRace_AnyFinished(g, dt, rnd) ==
    LET t == g.time_race + dt
        n == Len(g.racers)
        step == [i \in 1..n |-> StepRacer(g.racers[i], dt, t, g.track, i \in rnd.jump, rnd)]
        rs1 == [i \in 1..n |-> step[i].r]
        ps1 == g.particles \o Concat([i \in 1..n |-> step[i].parts])
        g1 == [g EXCEPT !.time_race = t,
                        !.camera_x = Camera(g, Player(rs1).x),
                        !.particles = Alive(ps1, dt),
                        !.racers = [i \in 1..n |-> Cooled(rs1[i], dt)]]
    IN  IF \E i \in 1..n : g1.racers[i].finished THEN RaceEnd(g1) ELSE g1

\* Game._update_race.  rnd.jump: the racers whose random.random() <
\* jump_chance comes out true in this tick.
UpdateRace(g, dt, rnd) ==
    LET t == g.time_race + dt
        n == Len(g.racers)
        step == [i \in 1..n |-> StepRacer(g.racers[i], dt, t, g.track, i \in rnd.jump, rnd)]
        rs1 == [i \in 1..n |-> step[i].r]
        ps1 == g.particles \o Concat([i \in 1..n |-> step[i].parts])
        g1 == [g EXCEPT !.time_race = t,
                        !.camera_x = Camera(g, Player(rs1).x),
                        !.particles = Alive(ps1, dt),
                        !.racers = [i \in 1..n |-> Cooled(rs1[i], dt)]]
    IN  IF \A i \in 1..n : g1.racers[i].finished THEN RaceEnd(g1) ELSE g1

\* Game._handle_input: the key getch() returned: "enter", "+", "-", "m",
\* "q", "p", "r", "h", "s", "d", "a", "space" (each with its aliases), "none"
\* for -1 and "other" for a key no branch tests.
Throttle_EngineIgnored(r) ==
    [r EXCEPT !.vx = Min(MAX_SPEED, r.vx + (ACCEL * 6) \div 100)]
Throttle(r) ==
    LET accel == (ACCEL * (IF r.engine_on THEN ENGINE_ON_ACCEL_FACTOR
                           ELSE ENGINE_OFF_ACCEL_FACTOR)) \div 100
    IN  [r EXCEPT !.vx = Min(MAX_SPEED, r.vx + (accel * 6) \div 100)]
Brake(r) == [r EXCEPT !.vx = Max(0, r.vx - (BRAKE * 8) \div 100)]

HandleRace(g, key, now, rnd) ==
    LET p == PlayerIx(g.racers)
        player == g.racers[p]
    IN  IF key = "q" THEN [g EXCEPT !.phase = "exit"]
        ELSE IF key = "p" THEN [g EXCEPT !.state = STATE_PAUSE]
        ELSE IF key = "r" THEN StartCountdown(g, now, rnd)
        ELSE IF key = "h" THEN ToHome(g)
        ELSE IF key = "m" THEN [g EXCEPT !.reduced_motion = ~@]
        ELSE IF key = "s" THEN [g EXCEPT !.racers[p].engine_on = ~@]
        ELSE IF key = "d" THEN [g EXCEPT !.racers[p] = Throttle(player),
                                         !.particles = @ \o Dust(FALSE, rnd)]
        ELSE IF key = "a" THEN [g EXCEPT !.racers[p] = Brake(player)]
        ELSE IF key = "space" /\ Abs(player.y) < GROUND_EPS
        THEN [g EXCEPT !.racers[p].vy = JUMP_VEL, !.particles = @ \o Dust(TRUE, rnd)]
        ELSE g

\* the bot count of the home screen (lines 235-238)
MAX_BOTS == 12
MoreBots_NoCap(n) == n + 1
MoreBots(n) == Min(MAX_BOTS, n + 1)
FewerBots(n) == Max(0, n - 1)

HandleInput(g, key, now, rnd) ==
    IF key = "none" THEN g
    ELSE IF g.state = STATE_HOME THEN
        IF key = "enter" THEN StartCountdown(g, now, rnd)
        ELSE IF key = "+" THEN [g EXCEPT !.bot_count = MoreBots(@)]
        ELSE IF key = "-" THEN [g EXCEPT !.bot_count = FewerBots(@)]
        ELSE IF key = "m" THEN [g EXCEPT !.reduced_motion = ~@]
        ELSE IF key = "q" THEN [g EXCEPT !.phase = "exit"]
        ELSE g
    ELSE IF g.state = STATE_COUNTDOWN THEN
        IF key = "q" THEN [g EXCEPT !.phase = "exit"]
        ELSE IF key = "p" THEN [g EXCEPT !.state = STATE_PAUSE]
        ELSE g
    ELSE IF g.state = STATE_RACE THEN HandleRace(g, key, now, rnd)
    ELSE IF g.state = STATE_PAUSE THEN
        IF key = "p" THEN [g EXCEPT !.state = STATE_RACE]
        ELSE IF key = "h" THEN ToHome(g)
        ELSE IF key = "q" THEN [g EXCEPT !.phase = "exit"]
        ELSE IF key = "r" THEN StartCountdown(g, now, rnd)
        ELSE g
    ELSE IF g.state = STATE_END THEN
        IF key = "enter" THEN StartCountdown(g, now, rnd)
        ELSE IF key = "h" THEN ToHome(g)
        ELSE IF key = "q" THEN [g EXCEPT !.phase = "exit"]
        ELSE g
    ELSE g

\* One iteration of the loop of Game.run (lines 199-219): dt is the wall-clock
\* time since the previous iteration clamped to [0.001, 0.06] s, the input is
\* handled, and the state it leaves is updated.  SystemExit leaves the loop.
\* (the lower clamp, 0.001 s, is below the time grid: every frame takes >= 1)
DT_MAX == 6
ClampDt(wall) == Min(DT_MAX, wall)

RunFrame_PauseTicks(g, key, now, dt, rnd) ==
    LET g1 == HandleInput(g, key, now, rnd) IN
    IF g1.phase = "exit" THEN g1
    ELSE IF g1.state = STATE_COUNTDOWN THEN UpdateCountdown(g1, now)
    ELSE IF g1.state \in {STATE_RACE, STATE_PAUSE} THEN UpdateRace(g1, dt, rnd)
    ELSE g1
RunFrame(g, key, now, dt, rnd) ==
    LET g1 == HandleInput(g, key, now, rnd) IN
    IF g1.phase = "exit" THEN g1
    ELSE IF g1.state = STATE_COUNTDOWN THEN UpdateCountdown(g1, now)
    ELSE IF g1.state = STATE_RACE THEN UpdateRace(g1, dt, rnd)
    ELSE g1

----------------------------------------------------------------------------
(* The random draws of one frame.  Every field is one outcome of a         *)
(* random.* call of the frame; the sets below hold the extremes.           *)
(*   track: the obstacles Track.generate places     ai: a new bot's draws  *)
(*   jump:  the racers whose random() < jump_chance  jf: uniform(0.9, 1.1) *)
(*   dust:  randint(2, 5) of _dust    rock, log: randint(2, 5), (1, 4)     *)
(*   ttl:   the particles' uniform(...) times to live                      *)

Calm == [track |-> <<>>, ai |-> AiDraw(32, 10, 35), jump |-> {}, jf |-> 1000,
         dust |-> 2, rock |-> 2, log |-> 1, ttl |-> "lo"]
Wild == [Calm EXCEPT !.jump = 1..13, !.jf = 1100, !.dust = 5, !.rock = 5,
                     !.log = 4, !.ttl = "hi"]
Odd == [Calm EXCEPT !.jump = {2}, !.jf = 900, !.dust = 3, !.rock = 3,
                    !.log = 2, !.ttl = "mix"]

AiDraws == {AiDraw(32, 10, 35), AiDraw(52, 24, 75)}

\* Outcomes of Track.generate for the 1200-unit, 5-lane track: the empty
\* track, and obstacles near the start line and in the middle (each lane
\* ascending, first obstacle at 20 or from 24 on, at least 12 apart).
StartTrack == <<Obstacle(20, 0, ROCK), Obstacle(24, 2, RAMP)>>
GameTracks == {<<>>, StartTrack}

SpawnDraws == {[Calm EXCEPT !.track = t, !.ai = a] : t \in GameTracks, a \in AiDraws}

----------------------------------------------------------------------------
(* One frame as a step of the model                                        *)

Spawns(key) ==
    \/ key = "enter" /\ state \in {STATE_HOME, STATE_END}
    \/ key = "r" /\ state \in {STATE_RACE, STATE_PAUSE}

\* history: a racer's burst is the step that starts its cooldown
Bursts(old, new, t, hist) ==
    [i \in 1..Len(new) |->
        IF i > Len(old) \/ i > Len(hist) THEN None
        ELSE IF old[i].sparks_cooldown = 0 /\ new[i].sparks_cooldown > 0 THEN t
        ELSE hist[i]]

Step(key, wall, rnd) ==
    /\ phase = "run"
    /\ budget > 0
    /\ \E g \in {RunFrame(Self, key, clock + wall, ClampDt(wall), rnd)} :
        /\ phase' = g.phase
        /\ state' = g.state
        /\ stats' = g.stats
        /\ disk' = g.disk
        /\ saves' = g.saves
        /\ bot_count' = g.bot_count
        /\ reduced_motion' = g.reduced_motion
        /\ track' = g.track
        /\ racers' = g.racers
        /\ particles' = g.particles
        /\ camera_x' = g.camera_x
        /\ time_race' = g.time_race
        /\ time_start_countdown' = g.time_start_countdown
        /\ countdown_phase' = g.countdown_phase
        /\ last_burst' = IF Spawns(key) THEN [i \in 1..Len(g.racers) |-> None]
                         ELSE Bursts(racers, g.racers, g.time_race, last_burst)
    /\ clock' = clock + wall
    /\ budget' = budget - 1

\* The frame's wall-clock length: a 0.06 s frame, or during the countdown a
\* stall of a second
Walls == IF state = STATE_COUNTDOWN THEN {DT_MAX, 1 * TU} ELSE {DT_MAX}
DrawsFor(key) == IF Spawns(key) THEN SpawnDraws ELSE {Calm, Wild}

\* The input events (spec.md, section 6), each with the frame it is handled in
NoKey == \E wall \in Walls, rnd \in DrawsFor("none") : Step("none", wall, rnd)
OtherKey == \E wall \in Walls, rnd \in DrawsFor("other") : Step("other", wall, rnd)
Start == \E wall \in Walls, rnd \in DrawsFor("enter") : Step("enter", wall, rnd)
IncreaseBots == \E wall \in Walls, rnd \in DrawsFor("+") : Step("+", wall, rnd)
DecreaseBots == \E wall \in Walls, rnd \in DrawsFor("-") : Step("-", wall, rnd)
ToggleReducedMotion == \E wall \in Walls, rnd \in DrawsFor("m") : Step("m", wall, rnd)
Quit == \E wall \in Walls, rnd \in DrawsFor("q") : Step("q", wall, rnd)
TogglePause == \E wall \in Walls, rnd \in DrawsFor("p") : Step("p", wall, rnd)
Restart == \E wall \in Walls, rnd \in DrawsFor("r") : Step("r", wall, rnd)
GoHome == \E wall \in Walls, rnd \in DrawsFor("h") : Step("h", wall, rnd)
ToggleEngine == \E wall \in Walls, rnd \in DrawsFor("s") : Step("s", wall, rnd)
ThrottleDown == \E wall \in Walls, rnd \in DrawsFor("d") : Step("d", wall, rnd)
BrakeDown == \E wall \in Walls, rnd \in DrawsFor("a") : Step("a", wall, rnd)
JumpPressed == \E wall \in Walls, rnd \in DrawsFor("space") : Step("space", wall, rnd)

Next ==
    \/ NoKey \/ OtherKey \/ Start \/ IncreaseBots \/ DecreaseBots
    \/ ToggleReducedMotion \/ Quit \/ TogglePause \/ Restart \/ GoHome
    \/ ToggleEngine \/ ThrottleDown \/ BrakeDown \/ JumpPressed

----------------------------------------------------------------------------
(* Initial states                                                          *)

LifeFrames == 5
SnapFrames == 3

GameTrack(obs) == [length |-> TRACK_LENGTH, lanes |-> LANES, obstacles |-> obs]

\* Game.__init__ (lines 165-187), for a stats.json found at startup
BootFiles == {MissingFile, ObjectFile(3, 1, 4100)}
Constructed(file, obs, frames) ==
    /\ phase = "run"
    /\ state = STATE_HOME
    /\ disk = file
    /\ stats = Load(StatsDefault, file)
    /\ saves = 0
    /\ bot_count = 4
    /\ reduced_motion = FALSE
    /\ track = GameTrack(obs)
    /\ racers = <<>>
    /\ particles = <<>>
    /\ camera_x = 0
    /\ time_race = 0
    /\ time_start_countdown = 0
    /\ countdown_phase = 0
    /\ clock = 0
    /\ last_burst = <<>>
    /\ budget = frames

\* A race in progress: the state some frames after a spawn.  rs: the racers,
\* the player first; t: the race clock; ps: the particles alive.
InRace(file, st, obs, rs, ps, cam, t, frames) ==
    /\ phase = "run"
    /\ state = STATE_RACE
    /\ disk = file
    /\ stats = st
    /\ saves = 0
    /\ bot_count = Len(rs) - 1
    /\ reduced_motion = FALSE
    /\ track = GameTrack(obs)
    /\ racers = rs
    /\ particles = ps
    /\ camera_x = cam
    /\ time_race = t
    /\ time_start_countdown = 0
    /\ countdown_phase = 0
    /\ clock = 360 + t
    /\ last_burst = [i \in 1..Len(rs) |-> None]
    /\ budget = frames

\* A racer under way
Moving(r, x, vx, y, vy) == [r EXCEPT !.x = x, !.vx = vx, !.y = y, !.vy = vy]

\* Racers a frame or two from the finish line, 41.94 s into the race: the
\* player at 30 u/s and a bot at 40 u/s, each 1 or 3 units from the line.
FinishClock == 42 * TU - DT_MAX
NearLine == {1199 * XU, 1197 * XU}
FinishPlayer(x) == Moving(Racer(TRUE, LANES \div 2, PlayerAi), x, 30 * VU, 0, 0)
FinishBot(x) == Moving(Racer(FALSE, 0, AiDraw(52, 24, 75)), x, 40 * VU, 0, 0)
FinishFields == {<<FinishPlayer(px)>> : px \in NearLine}
                \cup {<<FinishPlayer(px), FinishBot(bx)>> : px \in NearLine, bx \in NearLine}
\* the statistics so far, with the file they were loaded from or saved to
FinishStats == {<<StatsDefault, MissingFile>>,
                <<StatsDefault, ReadOnly(MissingFile)>>,
                <<[total_races |-> 3, wins |-> 1, best_time |-> 4100], ObjectFile(3, 1, 4100)>>,
                <<[total_races |-> 3, wins |-> 1, best_time |-> 4500], ObjectFile(3, 1, 4500)>>}
OldDust == <<[kind |-> DUST, ttl |-> 8]>>

Init ==
    \/ \E file \in BootFiles, obs \in GameTracks : Constructed(file, obs, LifeFrames)
    \/ \E rs \in FinishFields, sd \in FinishStats :
          InRace(sd[2], sd[1], StartTrack, rs, OldDust, rs[1].x - 30 * XU,
                 FinishClock, SnapFrames)

Spec == Init /\ [][Next]_vars

----------------------------------------------------------------------------
(* SpecRace: the race simulation around the obstacles.  The initial states *)
(* are races 5 s old with the racers at the obstacles of the 20-unit mark: *)
(* the player (lane 2) before a rock, a bot (lane 0) before a log and a    *)
(* bot (lane 1) before a ramp.                                             *)

RaceFrames == 3
RaceClock == 5 * TU
RaceTrack == <<Obstacle(20, 0, LOG), Obstacle(20, 1, RAMP), Obstacle(20, 2, ROCK)>>

RacePlayers ==
    LET p == Racer(TRUE, LANES \div 2, PlayerAi) IN
    { Moving(p, 19 * XU, 5 * VU, 0, 0),                      \* rolls into the rock
      Moving(p, (195 * XU) \div 10, 20 * VU, XU \div 20, 0), \* lands at the rock
      Moving(p, 10 * XU, (595 * VU) \div 10, 0, 0) }         \* near top speed
LogBot == Moving(Racer(FALSE, 0, AiDraw(32, 10, 35)), 19 * XU, 10 * VU, 0, 0)
RampBot == Moving(Racer(FALSE, 1, AiDraw(52, 24, 75)), (192 * XU) \div 10, 8 * VU, 0, 0)
RaceFields == {<<p, LogBot, RampBot>> : p \in RacePlayers}

InitRace ==
    \E rs \in RaceFields :
        InRace(MissingFile, StatsDefault, RaceTrack, rs, OldDust, 0, RaceClock, RaceFrames)

\* dt at both ends of the clamp's range on the time grid (0.01 s, 0.06 s)
RaceWalls == {1, DT_MAX}
TickDraws == {Calm, Wild, Odd}
KeyDraws == {Calm, Wild}

RaceTick ==
    /\ state = STATE_RACE
    /\ \E wall \in RaceWalls, rnd \in TickDraws : Step("none", wall, rnd)
RaceThrottle ==
    /\ state = STATE_RACE
    /\ \E wall \in RaceWalls, rnd \in KeyDraws : Step("d", wall, rnd)
RaceBrake ==
    /\ state = STATE_RACE
    /\ \E wall \in RaceWalls, rnd \in KeyDraws : Step("a", wall, rnd)
RaceJump ==
    /\ state = STATE_RACE
    /\ \E wall \in RaceWalls, rnd \in KeyDraws : Step("space", wall, rnd)
RaceEngine ==
    /\ state = STATE_RACE
    /\ \E wall \in RaceWalls, rnd \in KeyDraws : Step("s", wall, rnd)

NextRace == RaceTick \/ RaceThrottle \/ RaceBrake \/ RaceJump \/ RaceEngine

SpecRace == InitRace /\ [][NextRace]_vars

----------------------------------------------------------------------------
(* SpecSparks: a racer in lasting contact with an obstacle.  The player    *)
(* rolls into the rock and comes to rest in its range.  The loop of        *)
(* Game.run sleeps each iteration out to TICK = 1/30 s (line 219), so its  *)
(* frames take 0.04, 0.05 or 0.06 s on the time grid.                      *)

SparkFrames == 6

InitSparks ==
    \E p \in {Moving(Racer(TRUE, LANES \div 2, PlayerAi), 19 * XU, 5 * VU, 0, 0)} :
        InRace(MissingFile, StatsDefault, RaceTrack, <<p>>, <<>>, 0, RaceClock, SparkFrames)

SparkWalls == {4, 5, DT_MAX}

SparksTick ==
    /\ state = STATE_RACE
    /\ \E wall \in SparkWalls, rnd \in TickDraws : Step("none", wall, rnd)
SparksBrake ==
    /\ state = STATE_RACE
    /\ \E wall \in SparkWalls, rnd \in {Calm} : Step("a", wall, rnd)

NextSparks == SparksTick \/ SparksBrake

SpecSparks == InitSparks /\ [][NextSparks]_vars

----------------------------------------------------------------------------
(* SpecTrack: Track(length, lanes) and Track.generate, for short tracks;   *)
(* budget counts the regenerations still to be explored                    *)

MaxGenLength == 96
GenRuns == 2
GenLengths == (MaxGenLength - 14)..MaxGenLength
GenLanes == {1, 2}

Idle(trk, file, frames) ==
    /\ phase = "boot"
    /\ state = STATE_HOME
    /\ disk = file
    /\ stats = StatsDefault
    /\ saves = 0
    /\ bot_count = 4
    /\ reduced_motion = FALSE
    /\ track = trk
    /\ racers = <<>>
    /\ particles = <<>>
    /\ camera_x = 0
    /\ time_race = 0
    /\ time_start_countdown = 0
    /\ countdown_phase = 0
    /\ clock = 0
    /\ last_burst = <<>>
    /\ budget = frames

\* Track.__init__
InitTrack ==
    \E length \in GenLengths, lanes \in GenLanes :
        \E obs \in Generate(length, lanes) :
            Idle([length |-> length, lanes |-> lanes, obstacles |-> obs], MissingFile, GenRuns)

\* Track.generate on an existing track
Regenerate ==
    /\ budget > 0
    /\ \E obs \in Generate(track.length, track.lanes) :
          track' = [track EXCEPT !.obstacles = obs]
    /\ budget' = budget - 1
    /\ UNCHANGED <<phase, state, stats, disk, saves, bot_count, reduced_motion,
                   racers, particles, camera_x, time_race, time_start_countdown,
                   countdown_phase, clock, last_burst>>

SpecTrack == InitTrack /\ [][Regenerate]_vars

----------------------------------------------------------------------------
(* SpecStats: Stats() and Stats.load, as Game.__init__ runs them, for      *)
(* every stats.json of the file model                                      *)

IntFields == {Absent, None, JBad, 0, 3}
FloatFields == {Absent, None, JBad, 4100}
StatFiles == {MissingFile, GarbageFile}
             \cup {ObjectFile(t, w, b) : t \in IntFields, w \in IntFields, b \in FloatFields}

InitStats == \E file \in StatFiles : Idle(GameTrack(<<>>), file, 0)

\* self.stats = Stats(); self.stats.load()
LoadStats ==
    /\ phase = "boot"
    /\ phase' = "run"
    /\ stats' = Load(StatsDefault, disk)
    /\ UNCHANGED <<state, disk, saves, bot_count, reduced_motion, track,
                   racers, particles, camera_x, time_race, time_start_countdown,
                   countdown_phase, clock, last_burst, budget>>


SpecStats == InitStats /\ [][LoadStats]_vars

----------------------------------------------------------------------------
(* SpecBots: the home screen's bot count and the races started with it.    *)
(* Frames of 0.06 s from the constructed game: the bot count is raised     *)
(* and lowered, a race is started, paused (which also leaves the           *)
(* countdown), resumed and left for Home.                                  *)

BotFrames == 10

InitBots == Constructed(MissingFile, <<>>, BotFrames)

BotsIncrease ==
    /\ phase = "run"
    /\ Step("+", DT_MAX, Calm)
BotsDecrease ==
    /\ phase = "run"
    /\ Step("-", DT_MAX, Calm)
BotsStart ==
    /\ phase = "run"
    /\ Step("enter", DT_MAX, Calm)
BotsPause ==
    /\ phase = "run"
    /\ Step("p", DT_MAX, Calm)
BotsHome ==
    /\ phase = "run"
    /\ Step("h", DT_MAX, Calm)

NextBots == BotsIncrease \/ BotsDecrease \/ BotsStart \/ BotsPause \/ BotsHome

SpecBots == InitBots /\ [][NextBots]_vars

----------------------------------------------------------------------------
(* SpecCollide: _collisions on a degenerate track whose obstacles overlap:  *)
(* rocks, a log and a ramp within 0.9 units of each other in the player's  *)
(* lane, a log and a rock in the bot's lane, a rock in a lane nobody       *)
(* drives.  The racers arrive rolling, landing or flying.                  *)

CollideFrames == 2

\* Obstacle(x, lane, kind) at x hundredths of a unit
Placed(x, lane, kind) == [x |-> (x * XU) \div 100, lane |-> lane, kind |-> kind]
CollideTrack ==
    <<Placed(2000, 2, ROCK), Placed(2030, 2, LOG), Placed(2040, 0, LOG),
      Placed(2040, 1, ROCK), Placed(2050, 2, ROCK), Placed(2060, 2, RAMP),
      Placed(2070, 0, ROCK), Placed(2200, 2, LOG)>>

CollidePlayers ==
    LET p == Racer(TRUE, LANES \div 2, PlayerAi) IN
    { Moving(p, 19 * XU, 50 * VU, 0, 0),                        \* rolls in fast
      Moving(p, (18536 * XU) \div 1000, 40 * VU, 0, 0),         \* stops 0.9 past the first rock
      Moving(p, (195 * XU) \div 10, 20 * VU, (928 * XU) \div 1000,
             0 - (133 * VU) \div 10),                           \* comes down from a jump
      Moving(p, (198 * XU) \div 10, 20 * VU, 2 * XU, 0) }       \* flies over
CollideBot == Moving(Racer(FALSE, 0, AiDraw(32, 10, 35)), (195 * XU) \div 10, 20 * VU, 0, 0)
CollideFields == {<<p>> : p \in CollidePlayers} \cup {<<p, CollideBot>> : p \in CollidePlayers}

InitCollide ==
    \E rs \in CollideFields :
        InRace(MissingFile, StatsDefault, CollideTrack, rs, <<>>, 0, RaceClock, CollideFrames)

\* every outcome of random.randint(2, 5) in _dust, with the bots jumping
DustDraws == {[Wild EXCEPT !.dust = n] : n \in 2..5}

CollideTick ==
    /\ state = STATE_RACE
    /\ \E wall \in SparkWalls, rnd \in TickDraws \cup DustDraws : Step("none", wall, rnd)
CollideJump ==
    /\ state = STATE_RACE
    /\ \E wall \in SparkWalls, rnd \in KeyDraws \cup DustDraws : Step("space", wall, rnd)

NextCollide == CollideTick \/ CollideJump

SpecCollide == InitCollide /\ [][NextCollide]_vars

----------------------------------------------------------------------------
(* SpecBotRun: the bots' run to the finish line while the player stands at *)
(* the start and never presses throttle.  30 s into the race the bot of    *)
(* lane 0 comes up to a ramp at 1120 with a rock at 1132 behind it, and    *)
(* the bot of lane 1 stands stopped within reach of a log at 1132.  Every  *)
(* frame is a race tick of 0.06 s; the loop of Game.run never stops, which *)
(* is the fairness of the specification.                                   *)

BotRunFrames == 80

BotRunTrack == <<Obstacle(1120, 0, RAMP), Obstacle(1132, 0, ROCK), Obstacle(1132, 1, LOG)>>

InitBotRun ==
    \E rs \in {<<Racer(TRUE, LANES \div 2, PlayerAi),
                 Moving(Racer(FALSE, 0, AiDraw(52, 24, 75)), 1118 * XU, 40 * VU, 0, 0),
                 Moving(Racer(FALSE, 1, AiDraw(32, 10, 35)), (11315 * XU) \div 10, 0, 0, 0)>>} :
        InRace(MissingFile, StatsDefault, BotRunTrack, rs, <<>>, 0 - 20 * XU, 30 * TU,
               BotRunFrames)

BotRunTick ==
    /\ state = STATE_RACE
    /\ \E rnd \in TickDraws : Step("none", DT_MAX, rnd)
BotRunBrake ==
    /\ state = STATE_RACE
    /\ \E rnd \in KeyDraws : Step("a", DT_MAX, rnd)

NextBotRun == BotRunTick \/ BotRunBrake

\* The loop of Game.run goes on to its next frame (lines 197-219): a step
\* that uses up a frame
FrameRuns ==
    /\ phase = "run"
    /\ state = STATE_RACE
    /\ budget > 0
    /\ budget' = budget - 1

SpecBotRun == InitBotRun /\ [][NextBotRun]_vars /\ WF_budget(FrameRuns)

----------------------------------------------------------------------------
(* Properties                                                              *)

\* A step that spawns a new race (Start, Restart): the only steps that enter
\* the countdown
NewRace == state # STATE_COUNTDOWN /\ state' = STATE_COUNTDOWN

FinishLine == TRACK_LENGTH * XU
AllFinished(rs) == \A i \in 1..Len(rs) : rs[i].finished
Confetti(ps) == Cardinality({i \in 1..Len(ps) : ps[i].kind = CONFETTI})

\* C1: in every reachable state of the race, after every sequence of ticks
\* and of throttle, brake, jump and engine events, every racer, player or
\* bot, has 0 <= vx <= MAX_SPEED and y >= 0.
C1_SpeedAndHeightInRange ==
    \A i \in 1..Len(racers) :
        /\ 0 <= racers[i].vx
        /\ racers[i].vx <= MAX_SPEED
        /\ racers[i].y >= 0

\* C1, its case: a racer an obstacle's penalty has stopped (the penalty
\* exceeds its speed), a racer in the air, and the player within 1 u/s of
\* MAX_SPEED after a throttle that would have taken it past.
C1_Witness ==
    /\ \E i \in 1..Len(racers) : racers[i].vx = 0 /\ racers[i].sparks_cooldown > 0
    /\ \E i \in 1..Len(racers) : racers[i].y > 0
    /\ \E i \in 1..Len(racers) : racers[i].is_player /\ racers[i].vx > MAX_SPEED - VU

\* C2: within one race a racer's finish_time is written at most once.  It is
\* None exactly while the racer is unfinished (and short of the line); the
\* step that sets it sets it to that tick's race clock, and is the step in
\* which x first reaches the line; once set it never changes; so it is >= the
\* finish_time of every racer that finished in an earlier tick.
C2_FinishTimeWrittenOnce ==
    [][~NewRace =>
        \A i \in 1..Len(racers) :
            /\ racers[i].finish_time # None
                  => racers'[i].finish_time = racers[i].finish_time
            /\ (racers[i].finish_time = None /\ racers'[i].finish_time # None)
                  => /\ racers'[i].finish_time = time_race'
                     /\ racers[i].x < FinishLine
                     /\ racers'[i].x >= FinishLine
                     /\ \A j \in 1..Len(racers) :
                           racers[j].finish_time # None
                              => racers[j].finish_time <= racers'[i].finish_time
            /\ (racers'[i].finish_time = None) <=> ~racers'[i].finished
            /\ (racers'[i].finish_time = None) => racers'[i].x < FinishLine
      ]_vars

\* C2, its case: two racers have finished in different ticks, and both
\* finish times stand.
C2_Witness ==
    /\ Len(racers) = 2
    /\ racers[1].finish_time # None
    /\ racers[2].finish_time # None
    /\ racers[1].finish_time < racers[2].finish_time

C4_BurstsCooldownApart ==
    [][\A i \in 1..Len(racers) :
          (last_burst[i] # None /\ last_burst'[i] # last_burst[i])
             => last_burst'[i] - last_burst[i] >= SPARKS_COOLDOWN]_vars

\* C5: after every completed race tick no particle of the collection has
\* ttl <= 0, whatever the tick and the input event before it spawned: a
\* particle whose ttl reaches <= 0 in a tick is removed in that tick.
C5_NoExpiredParticle ==
    \A i \in 1..Len(particles) : particles[i].ttl > 0

\* C5, its case: the dust that was the oldest particle, with 0.08 s to live,
\* has expired and is gone; the sparks spawned after it live on.
C5_Witness ==
    /\ time_race >= RaceClock + 8
    /\ particles # <<>>
    /\ particles[1].kind = SPARK

\* C6: for every outcome of Track.generate, also of a regeneration, two
\* distinct obstacles of one lane are at least 4 units apart in x, and every
\* obstacle's x is in [20, length - 60).
C6_LaneSpacing ==
    \A i \in 1..Len(track.obstacles) :
        /\ 20 * XU <= track.obstacles[i].x
        /\ track.obstacles[i].x < (track.length - 60) * XU
        /\ \A j \in 1..Len(track.obstacles) :
              (i # j /\ track.obstacles[i].lane = track.obstacles[j].lane)
                 => Abs(track.obstacles[i].x - track.obstacles[j].x) >= 4 * XU

\* C6, its case: a track after its last regeneration, two obstacles in one lane
\* as close as the generator places them (12 units)
C6_Witness ==
    /\ budget = 0
    /\ \E i, j \in 1..Len(track.obstacles) :
           /\ i # j
           /\ track.obstacles[i].lane = track.obstacles[j].lane
           /\ track.obstacles[j].x - track.obstacles[i].x = 12 * XU

\* C7: at race end wins is incremented by one if and only if no racer has a
\* finish time strictly smaller than the player's; a bot that ties with the
\* player does not take the win.
C7_WinIffNoneFaster ==
    [][(state # STATE_END /\ state' = STATE_END) =>
          stats'.wins = stats.wins
              + (IF \E j \in 1..Len(racers') :
                        racers'[j].finish_time < Player(racers').finish_time
                 THEN 0 ELSE 1)]_vars

\* C7, its case: the player and a bot finished in the same tick, with equal
\* finish times, in the first race on record, and the win is the player's.
C7_Witness ==
    /\ state = STATE_END
    /\ Len(racers) = 2
    /\ racers[1].is_player
    /\ racers[2].finish_time = racers[1].finish_time
    /\ stats.total_races = 1
    /\ stats.wins = 1

\* The tick that completes a race: all its racers are finished after it and
\* were not before
Completes ==
    /\ ~NewRace
    /\ racers' # <<>>
    /\ ~AllFinished(racers)
    /\ AllFinished(racers')

\* C8: the race-end bookkeeping runs once per completed race, in the tick in
\* which all racers are finished: total_races grows by exactly 1 and save is
\* called exactly once (writing the statistics when the file can be written);
\* no other step (a frame in End, a Restart, a GoHome) changes total_races,
\* wins or best_time or saves.  From absent statistics {0, 0, null}, a race
\* the player wins with finish time 42.0 persists {1, 1, 42.0}.
C8_BookkeepingOncePerRace ==
    [][IF Completes
       THEN /\ stats'.total_races = stats.total_races + 1
            /\ saves' = saves + 1
            /\ disk' = (IF disk.writable THEN Dumped(stats') ELSE disk)
            /\ (/\ stats = StatsDefault
                /\ disk = MissingFile
                /\ Player(racers').finish_time = 42 * TU
                /\ \A j \in 1..Len(racers') :
                      racers'[j].finish_time >= Player(racers').finish_time)
                  => disk' = ObjectFile(1, 1, 42 * TU)
       ELSE UNCHANGED <<stats, saves, disk>>]_vars

\* C8, its case: the race from absent statistics that the player won at
\* 42.0 s is on file as {1, 1, 42.0}, saved once, and every frame of the
\* budget has run, the later ones in End.
C8_Witness ==
    /\ state = STATE_END
    /\ budget = 0
    /\ saves = 1
    /\ stats = [total_races |-> 1, wins |-> 1, best_time |-> 42 * TU]
    /\ disk = ObjectFile(1, 1, 42 * TU)

\* A stats.json that is corrupt: it does not parse, or one of its three
\* fields has a value that cannot be converted
Corrupt(d) ==
    \/ d.kind = "garbage"
    \/ d.kind = "object" /\ (\/ IntRaises(d.total_races)
                             \/ IntRaises(d.wins)
                             \/ FloatRaises(d.best_time))

\* C9: Stats.load on a fresh Stats yields the defaults {0, 0, null} for
\* every stats.json that is missing or corrupt, also when the fields read
\* before the bad one are valid.
C9_DefaultsWhenMissingOrCorrupt ==
    (phase = "run" /\ (disk.kind = "missing" \/ Corrupt(disk)))
        => stats = StatsDefault

\* The simulation: the race clock, every racer's motion and finish record,
\* the particles and the camera
Simulation ==
    <<time_race,
      [i \in 1..Len(racers) |->
          <<racers[i].x, racers[i].y, racers[i].vx, racers[i].vy,
            racers[i].finished, racers[i].finish_time>>],
      particles, camera_x>>

\* C10, as claimed: a frame that starts in Pause or Home and handles no
\* Start or Restart leaves the simulation unchanged.
C10_NoAdvanceFromPauseOrHome ==
    [][(state \in {STATE_PAUSE, STATE_HOME} /\ ~NewRace)
          => Simulation' = Simulation]_vars

\* C10: a frame that starts in Pause or Home and ends in Pause or Home (no
\* Start, no Restart, and no TogglePause that resumes the race) leaves the
\* simulation unchanged; the frame that resumes runs one race tick.
C10_NoAdvanceWhilePausedOrHome ==
    [][(state \in {STATE_PAUSE, STATE_HOME} /\ state' \in {STATE_PAUSE, STATE_HOME})
          => Simulation' = Simulation]_vars

\* C10, its case: a race under way was paused and frames have run in Pause
C10_Witness ==
    /\ state = STATE_PAUSE
    /\ budget = 0
    /\ time_race > 0
    /\ particles # <<>>
    /\ \E i \in 1..Len(racers) : racers[i].vx > 0

\* The wall-clock time since the latest countdown was started
SinceCountdown == clock - time_start_countdown
COUNTDOWN_LENGTH == (36 * TU) \div 10

\* C11: once a countdown is started the state is not Race, and the race
\* clock has not advanced, before 3.6 s have elapsed since it started,
\* whatever the input events; during the countdown the phase shown is 3 in
\* the first second, 2 in the second, 1 in the third and 0 (GO) up to 3.6 s.
C11_NoRaceBeforeCountdownElapsed ==
    /\ (state = STATE_RACE \/ time_race > 0) => SinceCountdown >= COUNTDOWN_LENGTH
    /\ (phase = "run" /\ state = STATE_COUNTDOWN) =>
          countdown_phase = (IF SinceCountdown < 1 * TU THEN 3
                             ELSE IF SinceCountdown < 2 * TU THEN 2
                             ELSE IF SinceCountdown < 3 * TU THEN 1
                             ELSE 0)

\* C12: a finished racer is frozen for the rest of the race: no race tick
\* and no input event changes its x, y, vx or vy, and it takes no further
\* collision (no new spark cooldown).
C12_FinishedRacerFrozen ==
    [][~NewRace =>
        \A i \in 1..Len(racers) :
            racers[i].finished =>
                /\ racers'[i].x = racers[i].x
                /\ racers'[i].y = racers[i].y
                /\ racers'[i].vx = racers[i].vx
                /\ racers'[i].vy = racers[i].vy
                /\ racers'[i].sparks_cooldown <= racers[i].sparks_cooldown]_vars

\* A fresh session: every racer at the origin, at rest, unfinished, engine
\* on, no spark cooldown; no particles; camera and race clock at 0
Fresh ==
    /\ \A i \in 1..Len(racers) :
          /\ racers[i].x = 0 /\ racers[i].y = 0
          /\ racers[i].vx = 0 /\ racers[i].vy = 0
          /\ ~racers[i].finished /\ racers[i].finish_time = None
          /\ racers[i].engine_on /\ racers[i].sparks_cooldown = 0
    /\ particles = <<>>
    /\ camera_x = 0
    /\ time_race = 0

\* C13: every entry into Countdown (Start, Restart, Rematch) produces a fresh
\* session on a track the generator has drawn anew, and the session stays
\* fresh, on that track, until the first race tick (the first step that
\* advances the race clock).
C13_FreshSessionOnCountdown ==
    [][/\ NewRace => /\ Fresh'
                     /\ racers' # <<>>
                     /\ track' = GameTrack(track'.obstacles)
                     /\ track'.obstacles \in GameTracks
       /\ ~NewRace => track' = track
       /\ (Fresh /\ time_race' = time_race) => Fresh']_vars

\* C13, its case: a race under way (racers near the line, dust in the air,
\* obstacles on the track) was restarted; the session is fresh, on a new,
\* empty track, and has stayed so through the frames that followed.
C13_Witness ==
    /\ state = STATE_COUNTDOWN
    /\ clock > FinishClock
    /\ budget = 0
    /\ Len(racers) = 2
    /\ Fresh
    /\ track.obstacles = <<>>

\* The bot count is in range, and outside Home the racers are the player,
\* first in the list, and bot_count bots
BotsInRange ==
    /\ 0 <= bot_count
    /\ bot_count <= 12
    /\ state \in {STATE_COUNTDOWN, STATE_RACE, STATE_PAUSE, STATE_END} =>
          /\ Len(racers) = 1 + bot_count
          /\ racers[1].is_player
          /\ \A i \in 2..Len(racers) : ~racers[i].is_player

\* C14: in every reachable state 0 <= bot_count <= 12 and, outside Home, the
\* racer list holds exactly 1 + bot_count racers of which exactly one, the
\* first, is the player; bot_count changes only in Home, by one, and not at
\* all by IncreaseBots at 12 or DecreaseBots at 0.
C14_BotCountInRange ==
    [][/\ BotsInRange
       /\ BotsInRange'
       /\ bot_count' \in {bot_count - 1, bot_count, bot_count + 1}
       /\ bot_count' # bot_count => (state = STATE_HOME /\ state' = STATE_HOME)]_vars

\* C14, its case: the bot count was raised to 12 and a race of the player
\* and 12 bots started with it
C14_Witness ==
    /\ state = STATE_COUNTDOWN
    /\ bot_count = 12
    /\ Len(racers) = 13
    /\ racers[1].is_player

\* The penalty of the rock or log, if any, whose range holds racer r
\* (RaceTrack has one obstacle per lane)
InReach(r, o) == o.lane = r.lane /\ Abs(r.x - o.x) < CONTACT_RANGE
PenaltyAt(r) ==
    IF \E i \in 1..Len(track.obstacles) :
           InReach(r, track.obstacles[i]) /\ track.obstacles[i].kind = ROCK
    THEN 12 * VU
    ELSE IF \E i \in 1..Len(track.obstacles) :
           InReach(r, track.obstacles[i]) /\ track.obstacles[i].kind = LOG
    THEN 9 * VU
    ELSE 0

\* C15: throttle is edge-triggered.  The frame of one throttle event raises
\* the player's vx once, by 28.0 * 0.06 = 1.68 with the engine on and by
\* 0.25 of that, 0.42, with it off, capped at MAX_SPEED (60); the frame's
\* tick then takes its friction, 10.0 * dt, and a collision penalty if the
\* player is on the ground in an obstacle's range.  In a frame with no
\* throttle event the player's vx does not increase: a frame that leaves vx
\* higher is a throttle frame, and leaves it at exactly that value.
C15_ThrottleEdgeTriggered ==
    [][LET p == PlayerIx(racers)
           dt == time_race' - time_race
           boosted == Min(60 * VU, racers[p].vx
                                    + (IF racers[p].engine_on THEN 1680 ELSE 420))
           rolled == Max(0, boosted - (10 * VU * dt) \div TU)
       IN  racers'[p].vx > racers[p].vx =>
              /\ RaceThrottle
              /\ \/ racers'[p].vx = rolled
                 \/ /\ racers'[p].y = 0
                    /\ PenaltyAt(racers'[p]) > 0
                    /\ racers'[p].vx = Max(0, rolled - PenaltyAt(racers'[p]))]_vars

\* C15, its case: the player, rolling at 59.5, switched the engine off in a
\* frame of 0.01 s (friction 0.1) and pressed throttle in the next: 0.42 more,
\* less the friction
C15_Witness ==
    /\ ~Player(racers).engine_on
    /\ Player(racers).vx = ((595 * VU) \div 10) - 100 + 420 - 100

\* C16: the tick that completes a race sets best_time to the player's finish
\* time when best_time was None or the finish time is strictly smaller, and
\* leaves it unchanged otherwise; no other step changes best_time.  Hence a
\* best_time that is not None stays not None and never increases: it is the
\* minimum of the loaded value and the player's finish times so far.
C16_BestTimeIsMinimum ==
    [][LET finish_time == Player(racers').finish_time IN
       /\ Completes =>
             /\ finish_time # None
             /\ stats'.best_time =
                   (IF stats.best_time = None \/ finish_time < stats.best_time
                    THEN finish_time
                    ELSE stats.best_time)
       /\ ~Completes => stats'.best_time = stats.best_time
       /\ stats.best_time # None =>
             /\ stats'.best_time # None
             /\ stats'.best_time <= stats.best_time]_vars

\* C16, its case: a fourth race is over, the player finished it at 42.00 s and
\* the best time loaded was 41.00 s: the best time is still 41.00 s
C16_Witness ==
    /\ state = STATE_END
    /\ stats.total_races = 4
    /\ Player(racers).finish_time = 42 * TU
    /\ stats.best_time = 41 * TU

\* C17: every change of the game state is Home->Countdown, Countdown->Race,
\* Race->Pause, Pause->Race, Race->End, End->Countdown, End->Home, or a
\* restart (->Countdown) or go-home (->Home) from Race or Pause; so Pause is
\* entered only from Race.
ListedTransitions ==
    { <<STATE_HOME, STATE_COUNTDOWN>>, <<STATE_COUNTDOWN, STATE_RACE>>,
      <<STATE_RACE, STATE_PAUSE>>, <<STATE_PAUSE, STATE_RACE>>,
      <<STATE_RACE, STATE_END>>,
      <<STATE_END, STATE_COUNTDOWN>>, <<STATE_END, STATE_HOME>>,
      <<STATE_RACE, STATE_COUNTDOWN>>, <<STATE_PAUSE, STATE_COUNTDOWN>>,
      <<STATE_RACE, STATE_HOME>>, <<STATE_PAUSE, STATE_HOME>> }
C17_OnlyListedTransitions ==
    [][state' # state => <<state, state'>> \in ListedTransitions]_vars

\* C18: the state becomes End in exactly the tick that finishes the last
\* unfinished racer, and that tick has moved the camera toward the player and
\* aged the particles before the state changed.  In End every racer is
\* finished with a finish time, and a tick (a step that advances the race
\* clock) never starts with all racers finished.
C18_EndWithLastFinisher ==
    [][LET dt == time_race' - time_race
           target_cam == Player(racers').x - (VIEW_WIDTH_MIN \div 3) * XU
       IN
       /\ (state # STATE_END /\ state' = STATE_END) <=> Completes
       /\ state' = STATE_END =>
             \A i \in 1..Len(racers') : /\ racers'[i].finished
                                        /\ racers'[i].finish_time # None
       /\ dt > 0 => /\ racers # <<>>
                    /\ ~AllFinished(racers)
       /\ Completes =>
             /\ dt > 0
             /\ camera_x' = (IF reduced_motion'
                             THEN Max(0, Min(TRACK_LENGTH * XU, target_cam))
                             ELSE camera_x + ((target_cam - camera_x) * 12) \div 100)
             /\ Len(particles') >= Len(Alive(particles, dt))
             /\ SubSeq(particles', 1, Len(Alive(particles, dt))) = Alive(particles, dt)]_vars

\* C18, its case: the player finished at 42.00 s and the bot, the last racer,
\* at 42.06 s: the race is over, with the dust that was in the air still alive
C18_Witness ==
    /\ state = STATE_END
    /\ Len(racers) = 2
    /\ racers[1].finish_time = 42 * TU
    /\ racers[2].finish_time = 42 * TU + DT_MAX
    /\ time_race = 42 * TU + DT_MAX
    /\ particles # <<>>

\* The vx of racer i after this tick's friction or AI and the speed clamp,
\* before collision resolution
Rolled(i, dt) ==
    LET r == racers[i]
        v == IF r.is_player
             THEN (IF r.vx > 0 THEN Max(0, r.vx - (10 * VU * dt) \div TU) ELSE r.vx)
             ELSE BotAi(r, dt, track, FALSE, Calm).r.vx
    IN  Max(0, Min(60 * VU, v))
\* The obstacles of a kind within reach of racer r
Hits(r, kind) ==
    Cardinality({k \in 1..Len(track.obstacles) :
                    track.obstacles[k].kind = kind /\ InReach(r, track.obstacles[k])})
RampVy == (12 * 16 * VU) \div 10
\* Racer i went through this tick without an obstacle's effect: no speed
\* lost, no ramp impulse, no sparks triggered
Untouched(i, dt) ==
    /\ racers'[i].vx = Rolled(i, dt)
    /\ racers'[i].vy < RampVy
    /\ racers'[i].sparks_cooldown = Max(0, racers[i].sparks_cooldown - dt)
\* Racer i received the effect of every kind of obstacle within its reach
Affected(i, dt) ==
    LET r == racers'[i] IN
    /\ Hits(r, ROCK) > 0 => r.vx <= Max(0, Rolled(i, dt) - 12 * VU)
    /\ Hits(r, LOG) > 0 => r.vx <= Max(0, Rolled(i, dt) - 9 * VU)
    /\ Hits(r, RAMP) > 0 => r.vy = RampVy
    /\ (Hits(r, ROCK) + Hits(r, LOG) > 0 /\ racers[i].sparks_cooldown = 0) =>
          r.sparks_cooldown = SPARKS_COOLDOWN - dt

\* Racer i has lost 12 u/s per rock and 9 u/s per log within its reach, down
\* to 0 at most, and has the ramp's vy when a ramp is within its reach
Cumulative(i, dt) ==
    LET r == racers'[i] IN
    /\ r.vx = Max(0, Rolled(i, dt) - 12 * VU * Hits(r, ROCK) - 9 * VU * Hits(r, LOG))
    /\ Hits(r, RAMP) > 0 => r.vy = RampVy
    /\ (Hits(r, RAMP) = 0 /\ r.y = 0) => r.vy = 0

\* C19: collision resolution is applied to a racer in a tick if and
\* only if its y after the vertical integration is <= 0.001: above that it
\* loses no speed and triggers no sparks, and with 0 <= y <= 0.001 it receives
\* the effect of the obstacles of its lane within 0.9 units.
C19_GroundedWithinTolerance ==
    [][LET dt == time_race' - time_race IN
       dt > 0 => \A i \in 1..Len(racers) :
          IF racers'[i].y <= GROUND_EPS THEN Affected(i, dt) ELSE Untouched(i, dt)]_vars

\* A racer on the ground (y = 0 after the ground clamp) is affected by every
\* obstacle of its lane within 0.9 units, and by no other
OnGroundEveryObstacle ==
    [][LET dt == time_race' - time_race IN
       dt > 0 => \A i \in 1..Len(racers) :
          racers'[i].y = 0 => Cumulative(i, dt)]_vars

\* C20: in one tick a grounded racer (y <= 0.001) is affected by every
\* obstacle of its lane within 0.9 units: vx is max(0, vx - 12 per rock - 9
\* per log) and a ramp among them sets vy to 1.2 * 16 and takes no speed; the
\* obstacles of other lanes and those at 0.9 units or more count for nothing.
C20_EveryObstacleInRange ==
    [][LET dt == time_race' - time_race IN
       dt > 0 => \A i \in 1..Len(racers) :
          racers'[i].y <= GROUND_EPS => Cumulative(i, dt)]_vars

\* The particles of a kind in a collection
CountKind(ps, kind) == Cardinality({k \in 1..Len(ps) : ps[k].kind = kind})
\* The dust particles this frame added: those there after it, less those
\* that were there before and are still alive
DustAdded == CountKind(particles', DUST) - CountKind(Alive(particles, time_race' - time_race), DUST)
\* Racer i jumped in this frame: it is in the air and its vy is not the vy it
\* had, less gravity
Jumped(i) ==
    /\ racers'[i].y > 0
    /\ racers'[i].vy + (36 * VU * (time_race' - time_race)) \div TU # racers[i].vy
\* Racer i took a ramp's impulse in this frame
Ramped(i) == racers'[i].y = 0 /\ racers'[i].vy = RampVy
\* The strong dust effects of this frame (player jump, ramp contact) and
\* the others (bot jump), in frames without throttle
StrongEffects ==
    Cardinality({i \in 1..Len(racers) : racers[i].is_player /\ Jumped(i)})
    + Cardinality({i \in 1..Len(racers) : Ramped(i)})
OtherEffects ==
    Cardinality({i \in 1..Len(racers) : ~racers[i].is_player /\ Jumped(i)})

\* C21 as stated: a dust effect adds between 2 and 5 particles when it is not
\* strong and exactly 9 when it is strong, for every outcome of the draw.
C21_StrongDustIsNine ==
    [][time_race' > time_race =>
          /\ DustAdded >= 9 * StrongEffects + 2 * OtherEffects
          /\ DustAdded <= 9 * StrongEffects + 5 * OtherEffects]_vars

\* C21, amended: a dust effect adds between 2 and 5 particles when it is not
\* strong and between 6 and 9 when it is strong (the draw of 2 to 5, plus
\* 4); a frame with no dust effect adds no dust.
C21_StrongDustIsDrawPlusFour ==
    [][time_race' > time_race =>
          /\ DustAdded >= 6 * StrongEffects + 2 * OtherEffects
          /\ DustAdded <= 9 * StrongEffects + 5 * OtherEffects]_vars

\* C21, its case: the player alone has jumped off the ground in the first
\* frame with the draw 2: 6 dust particles are in the air
C21_Witness ==
    /\ budget = CollideFrames - 1
    /\ Len(racers) = 1
    /\ Player(racers).y > 0
    /\ Player(racers).vy > 0
    /\ Len(particles) = 6
    /\ CountKind(particles, DUST) = 6

\* The obstacles (by index) of bot r's lane with x in [r.x, r.x + lookahead),
\* and those with x in (r.x, r.x + lookahead]
WindowClosedLeft(r) ==
    {k \in 1..Len(track.obstacles) :
        /\ track.obstacles[k].lane = r.lane
        /\ r.x <= track.obstacles[k].x
        /\ track.obstacles[k].x < r.x + r.lookahead}
WindowClosedRight(r) ==
    {k \in 1..Len(track.obstacles) :
        /\ track.obstacles[k].lane = r.lane
        /\ r.x < track.obstacles[k].x
        /\ track.obstacles[k].x <= r.x + r.lookahead}
\* The obstacle of a window with the smallest x
Nearest(window) ==
    IF window = {} THEN <<>>
    ELSE <<track.obstacles[CHOOSE k \in window :
                \A j \in window : track.obstacles[k].x <= track.obstacles[j].x]>>
\* Bot i's response in this tick to the hazards of a window: with a hazard
\* its vx, after the cruise control, is reduced by BRAKE * 0.2 * dt (floored
\* at 0) whether it jumps or not; with none it neither brakes nor jumps.
\* Collision penalties come after, on the ground.
HazardResponse(i, window) ==
    LET r == racers[i]
        dt == time_race' - time_race
        cruise == IF r.vx < r.target_speed
                  THEN Min(MAX_SPEED, r.vx + (ACCEL * dt) \div TU)
                  ELSE Max(0, r.vx - (FRICTION * dt) \div TU)
        braked == Max(0, cruise - (BRAKE * 2 * dt) \div (10 * TU))
        v == Max(0, Min(MAX_SPEED, IF window # {} THEN braked ELSE cruise))
        hit == 12 * VU * Hits(racers'[i], ROCK) + 9 * VU * Hits(racers'[i], LOG)
    IN  /\ racers'[i].vx = (IF racers'[i].y = 0 THEN Max(0, v - hit) ELSE v)
        /\ window = {} => ~Jumped(i)
        /\ FirstHazard(obstacles_in_lane(track, r.lane), r.x, r.x + r.lookahead)
              = Nearest(window)

BotsFinished == \A i \in 1..Len(racers) : ~racers[i].is_player => racers[i].finished

\* C23: while race ticks keep being executed, each bot's x strictly increases
\* in every tick until it reaches TRACK_LENGTH, and then the bot is marked
\* finished: every bot eventually finishes, whatever its jump decisions.  The
\* state becomes End only when the player is finished too: with no throttle
\* event the player stays at the start and the state stays Race.
C23_EveryBotFinishes ==
    /\ [][time_race' > time_race =>
            \A i \in 1..Len(racers) :
               (~racers[i].is_player /\ ~racers[i].finished) =>
                  /\ racers'[i].x > racers[i].x
                  /\ racers'[i].finished <=> racers'[i].x >= TRACK_LENGTH * XU]_vars
    /\ <>BotsFinished
    /\ [](state = STATE_END => Player(racers).finished)
    /\ [](state = STATE_RACE /\ ~Player(racers).finished /\ Player(racers).x = 0)

\* C23, its case: both bots are over the line, the one that stood at the log
\* later than the other, and the race still runs with the player at the start
C23_Witness ==
    /\ state = STATE_RACE
    /\ Len(racers) = 3
    /\ BotsFinished
    /\ racers[3].finish_time > racers[2].finish_time
    /\ Player(racers).x = 0
    /\ ~Player(racers).finished

====
